---- MODULE Spec2Model ----
(***************************************************************************)
(* The App component of src/App.tsx as a state machine.                    *)
(*                                                                         *)
(* The state is the component's React state (the nine useState cells),     *)
(* the requests it has in flight, and what the authentication collaborator *)
(* still has to deliver.  One step is one callback of the event loop run   *)
(* to its next await: a user gesture, a promise continuation or a          *)
(* subscription callback.  The state updates a callback makes are applied  *)
(* together, in the one render that follows it (React's batching), so a    *)
(* state of the model is a state a render can see.                         *)
(***************************************************************************)
EXTENDS Naturals, Sequences, FiniteSets

(***************************************************************************)
(* Bounds of the model.                                                    *)
(***************************************************************************)
\* collection-read requests in flight at once
MaxInFlight == 2
\* session-change notifications waiting to be delivered
MaxAuthEvents == 1
\* length of a collection the read endpoint returns
MaxLen == 2
\* how many entries of `categories` the tabs offer in the model
MaxCategories == 3
\* delete requests in flight at once
MaxDeletes == 1

(***************************************************************************)
(* Values.                                                                 *)
(***************************************************************************)
\* JS null, for the optional email (a string that is no email)
NoEmail == "null"

ADMIN_EMAILS == {"dhakwanhidaya@gmail.com", "dhakwansidra26@gmail.com"}

\* the emails a session can carry: the allowlist, an ordinary account, and
\* an allowlisted address in another letter case
Emails == ADMIN_EMAILS \cup {"visitor@example.com", "Dhakwanhidaya@gmail.com"}

\* the accounts that sign in through the auth modal in the model: an
\* allowlisted one and an ordinary one
Accounts == {"dhakwanhidaya@gmail.com", "visitor@example.com"}

\* session?.user?.email as the collaborator hands it over: an email, the
\* empty string, or none (no session, or a user without an email)
SessionEmails == Emails \cup {"", NoEmail}

categories ==
    << "all", "Typography", "Modern Art", "Abstract", "Vintage",
       "Minimalist", "Illustration", "Photography" >>

Min(a, b) == IF a < b THEN a ELSE b

\* the tabs the model clicks: the first MaxCategories entries
Tabs == { categories[i] : i \in 1..Min(MaxCategories, Len(categories)) }

\* a poster, by the two fields the component reads
Poster(id, category) == [id |-> id, category |-> category]

PosterPool ==
    { Poster("p1", "Typography"), Poster("p2", "Modern Art"),
      Poster("p3", "Typography") }

\* JS null, for the optional selected poster (a record that is no poster)
NoPoster == Poster("null", "null")

\* JS undefined in the place of the poster array (no sequence of posters)
Undefined == << Poster("undefined", "undefined") >>

\* what evaluating posters.filter(...) on undefined produces
TypeError == << Poster("TypeError", "TypeError") >>

\* the collections the read endpoint can return: sequences of distinct
\* posters, in server order
Collections ==
    UNION { { s \in [1..n -> PosterPool] :
                \A i, j \in 1..n : i # j => s[i].id # s[j].id } : n \in 0..MaxLen }

\* bodies of the read endpoint: { success, posters?, error? }
ReadResponses ==
    { [success |-> TRUE, posters |-> s] : s \in Collections }
    \cup { [success |-> TRUE] }
    \cup { [success |-> FALSE, error |-> "failed"] }

\* bodies of the delete endpoint: { success, error? }
DeleteResponses == { [success |-> TRUE], [success |-> FALSE, error |-> "failed"] }

\* result.posters: the field, or undefined when the body has none
PostersOf(result) ==
    IF "posters" \in DOMAIN result THEN result.posters ELSE Undefined

VARIABLES
    \* React state of App
    posters, selectedPoster, isModalOpen, isUploadDialogOpen, isAuthModalOpen,
    selectedCategory, isLoading, userEmail, isAdmin,
    \* the component's life: "initial" (rendered, effects not run), "mounted",
    \* "unmounted"
    phase,
    \* whether a render threw (React then unmounts the tree)
    renderFault,
    \* the authentication collaborator: its current session email, the result
    \* of getSession() on its way to the then-callback, the notifications it
    \* has queued for the subscriber, and whether App is subscribed
    authSession, sessionQuery, authEvents, subscribed,
    \* requests in flight: collection reads (a count), deletes (poster ids),
    \* an upload the dialog has submitted, and the auth modal's sign-in
    \* ("idle", "sent", or "accepted" by the collaborator)
    fetchInFlight, deleteInFlight, uploadInFlight, signIn,
    \* the alert raised by the last step ("none" if it raised none), and the
    \* event the last step handled
    notice, lastEvent

vars ==
    << posters, selectedPoster, isModalOpen, isUploadDialogOpen, isAuthModalOpen,
       selectedCategory, isLoading, userEmail, isAdmin, phase, renderFault,
       authSession, sessionQuery, authEvents, subscribed,
       fetchInFlight, deleteInFlight, uploadInFlight, signIn,
       notice, lastEvent >>

sessionVars == << userEmail, isAdmin >>
collabVars == << authSession, sessionQuery, authEvents, subscribed >>
overlayVars == << isModalOpen, isUploadDialogOpen, isAuthModalOpen >>
viewVars == << selectedPoster, selectedCategory >>
syncVars == << posters, isLoading >>
netVars == << fetchInFlight, deleteInFlight, uploadInFlight, signIn >>
lifeVars == << phase, renderFault >>

\* the component and its surroundings, without the record of the last step
appVars ==
    << posters, selectedPoster, isModalOpen, isUploadDialogOpen, isAuthModalOpen,
       selectedCategory, isLoading, userEmail, isAdmin, phase, renderFault,
       authSession, sessionQuery, authEvents, subscribed,
       fetchInFlight, deleteInFlight, uploadInFlight, signIn >>

Mounted == phase = "mounted"

(***************************************************************************)
(* Init: the first render, before the effects have run.  The collaborator  *)
(* may hold any session (a restored one, or none).                         *)
(***************************************************************************)
Init ==
    /\ posters = << >>
    /\ selectedPoster = NoPoster
    /\ isModalOpen = FALSE
    /\ isUploadDialogOpen = FALSE
    /\ isAuthModalOpen = FALSE
    /\ selectedCategory = "all"
    /\ isLoading = TRUE
    /\ userEmail = NoEmail
    /\ isAdmin = FALSE
    /\ phase = "initial"
    /\ renderFault = FALSE
    /\ authSession \in SessionEmails
    /\ sessionQuery = [st |-> "none"]
    /\ authEvents = << >>
    /\ subscribed = FALSE
    /\ fetchInFlight = 0
    /\ deleteInFlight = {}
    /\ uploadInFlight = FALSE
    /\ signIn = "idle"
    /\ notice = "none"
    /\ lastEvent = "init"

(***************************************************************************)
(* Helpers shared by the handlers.                                         *)
(***************************************************************************)
\* session?.user?.email || null
EmailOf(sessionEmail) ==
    IF sessionEmail = "" \/ sessionEmail = NoEmail THEN NoEmail ELSE sessionEmail

\* a role rule that takes every signed-in account for an admin
AdminOfAnyAccount(email) ==
    email # NoEmail

\* email ? ADMIN_EMAILS.includes(email) : false
AdminOf(email) ==
    IF email # NoEmail THEN email \in ADMIN_EMAILS ELSE FALSE

\* the two setters of a session callback, applied in one render; a setter
\* of an unmounted component does nothing
SetSession(sessionEmail) ==
    IF Mounted
    THEN /\ userEmail' = EmailOf(sessionEmail)
         /\ isAdmin' = AdminOf(EmailOf(sessionEmail))
    ELSE UNCHANGED sessionVars

\* a filter that also applies the category test under "all"
FilteredAlways(snapshot, category) ==
    IF snapshot = Undefined THEN TypeError
    ELSE SelectSeq(snapshot, LAMBDA poster : poster.category = category)

\* the value of filteredPosters in a render with these state values
Filtered(snapshot, category) ==
    IF category = "all" THEN snapshot
    ELSE IF snapshot = Undefined THEN TypeError
    ELSE SelectSeq(snapshot, LAMBDA poster : poster.category = category)

filteredPosters == Filtered(posters, selectedCategory)

\* a render throws when it calls .filter, .map or .length on undefined:
\* always for a category other than "all", and for "all" once the grid is
\* shown (not loading)
RenderThrows(snapshot, category, loading) ==
    snapshot = Undefined /\ (category # "all" \/ ~loading)

\* the start of fetchPosters(), up to its first await: the loading flag is
\* raised and one read request leaves
fetchPosters ==
    /\ fetchInFlight < MaxInFlight
    /\ isLoading' = (IF Mounted THEN TRUE ELSE isLoading)
    /\ fetchInFlight' = fetchInFlight + 1

(***************************************************************************)
(* Session Manager.                                                        *)
(***************************************************************************)
\* the two effects of the first render: getSession() is called, the
\* subscription is registered, and the startup fetch begins
Mount ==
    /\ phase = "initial"
    /\ phase' = "mounted"
    /\ sessionQuery' = [st |-> "pending"]
    /\ subscribed' = TRUE
    /\ isLoading' = TRUE
    /\ fetchInFlight' = fetchInFlight + 1
    /\ notice' = "none"
    /\ lastEvent' = "mount"
    /\ UNCHANGED << posters, sessionVars, overlayVars, viewVars, renderFault,
                    authSession, authEvents, deleteInFlight, uploadInFlight,
                    signIn >>

\* the collaborator reads its session for the pending getSession()
GetSessionResolves ==
    /\ sessionQuery.st = "pending"
    /\ sessionQuery' = [st |-> "resolved", email |-> authSession]
    /\ notice' = "none"
    /\ lastEvent' = "getSession:resolved"
    /\ UNCHANGED << syncVars, sessionVars, overlayVars, viewVars, lifeVars,
                    authSession, authEvents, subscribed, netVars >>

\* the then-callback of getSession()
SessionThen ==
    /\ sessionQuery.st = "resolved"
    /\ SetSession(sessionQuery.email)
    /\ sessionQuery' = [st |-> "done"]
    /\ notice' = "none"
    /\ lastEvent' = "getSession:then"
    /\ UNCHANGED << syncVars, overlayVars, viewVars, lifeVars,
                    authSession, authEvents, subscribed, netVars >>

\* the collaborator's session changes (sign-in, sign-out elsewhere, expiry,
\* token refresh); a subscriber is notified
AuthStateChange(sessionEmail) ==
    /\ phase # "initial"
    /\ subscribed => Len(authEvents) < MaxAuthEvents
    /\ authSession' = sessionEmail
    /\ authEvents' = IF subscribed THEN Append(authEvents, sessionEmail) ELSE authEvents
    /\ notice' = "none"
    /\ lastEvent' = "auth:change"
    /\ UNCHANGED << syncVars, sessionVars, overlayVars, viewVars, lifeVars,
                    sessionQuery, subscribed, netVars >>

\* the onAuthStateChange callback, for the oldest queued notification
OnAuthStateChange ==
    /\ subscribed
    /\ authEvents # << >>
    /\ SetSession(Head(authEvents))
    /\ authEvents' = Tail(authEvents)
    /\ notice' = "none"
    /\ lastEvent' = "auth:notified"
    /\ UNCHANGED << syncVars, overlayVars, viewVars, lifeVars,
                    authSession, sessionQuery, subscribed, netVars >>

\* a handleSignOut that clears the projection itself, before the subscriber
\* is notified
handleSignOutClearsProjection(succeeds) ==
    /\ Mounted
    /\ userEmail # NoEmail
    /\ IF succeeds
       THEN /\ Len(authEvents) < MaxAuthEvents
            /\ authSession' = NoEmail
            /\ authEvents' = Append(authEvents, NoEmail)
            /\ lastEvent' = "signOut:ok"
       ELSE /\ UNCHANGED << authSession, authEvents >>
            /\ lastEvent' = "signOut:failed"
    /\ userEmail' = NoEmail
    /\ isAdmin' = FALSE
    /\ notice' = "none"
    /\ UNCHANGED << syncVars, overlayVars, viewVars, lifeVars,
                    sessionQuery, subscribed, netVars >>

\* handleSignOut: the Sign Out button (shown while an email is projected)
\* awaits the collaborator's signOut(), which ends the session and notifies
\* the subscriber, or fails and changes nothing
handleSignOut(succeeds) ==
    /\ Mounted
    /\ userEmail # NoEmail
    /\ IF succeeds
       THEN /\ Len(authEvents) < MaxAuthEvents
            /\ authSession' = NoEmail
            /\ authEvents' = Append(authEvents, NoEmail)
            /\ lastEvent' = "signOut:ok"
       ELSE /\ UNCHANGED << authSession, authEvents >>
            /\ lastEvent' = "signOut:failed"
    /\ notice' = "none"
    /\ UNCHANGED << syncVars, sessionVars, overlayVars, viewVars, lifeVars,
                    sessionQuery, subscribed, netVars >>

\* an auth effect without cleanup: the registration outlives the component
UnmountKeepsSubscription ==
    /\ Mounted
    /\ phase' = "unmounted"
    /\ UNCHANGED subscribed
    /\ notice' = "none"
    /\ lastEvent' = "unmount"
    /\ UNCHANGED << syncVars, sessionVars, overlayVars, viewVars, renderFault,
                    authSession, sessionQuery, authEvents, netVars >>

\* the cleanup of the auth effect, when the component is torn down
Unmount ==
    /\ Mounted
    /\ phase' = "unmounted"
    /\ subscribed' = FALSE
    /\ notice' = "none"
    /\ lastEvent' = "unmount"
    /\ UNCHANGED << syncVars, sessionVars, overlayVars, viewVars, renderFault,
                    authSession, sessionQuery, authEvents, netVars >>

(***************************************************************************)
(* Collection Synchronizer: what follows the awaits of fetchPosters().     *)
(***************************************************************************)
\* the state a response leaves when the render that follows it throws: React
\* unmounts the tree, which runs the auth effect's cleanup
AfterRender(snapshot, loading) ==
    IF Mounted /\ RenderThrows(snapshot, selectedCategory, loading)
    THEN /\ phase' = "unmounted"
         /\ renderFault' = TRUE
         /\ subscribed' = FALSE
    ELSE UNCHANGED << phase, renderFault, subscribed >>

\* a response handler that empties the snapshot on a reported failure
SnapshotClearedOnFailure(result) ==
    IF result.success THEN PostersOf(result) ELSE << >>

\* if (result.success) setPosters(result.posters), else the snapshot stays
SnapshotAfter(result) ==
    IF result.success THEN PostersOf(result) ELSE posters

\* a response handler that takes a response for stale, and drops it, while
\* a request issued besides it is still in flight
FetchResponseDropsStale(result) ==
    /\ fetchInFlight > 0
    /\ fetchInFlight' = fetchInFlight - 1
    /\ IF Mounted
       THEN /\ posters' = (IF fetchInFlight > 1 THEN posters ELSE SnapshotAfter(result))
            /\ isLoading' = FALSE
       ELSE UNCHANGED syncVars
    /\ AfterRender(posters', isLoading')
    /\ notice' = "none"
    /\ lastEvent' = (IF result.success THEN "fetch:ok" ELSE "fetch:reported")
    /\ UNCHANGED << sessionVars, overlayVars, viewVars, authSession, sessionQuery,
                    authEvents, deleteInFlight, uploadInFlight, signIn >>

\* response.json() has produced `result`: the body decides whether the
\* snapshot is replaced; the finally block lowers the loading flag
FetchResponse(result) ==
    /\ fetchInFlight > 0
    /\ fetchInFlight' = fetchInFlight - 1
    /\ IF Mounted
       THEN /\ posters' = SnapshotAfter(result)
            /\ isLoading' = FALSE
       ELSE UNCHANGED syncVars
    /\ AfterRender(posters', isLoading')
    /\ notice' = "none"
    /\ lastEvent' = (IF result.success THEN "fetch:ok" ELSE "fetch:reported")
    /\ UNCHANGED << sessionVars, overlayVars, viewVars, authSession, sessionQuery,
                    authEvents, deleteInFlight, uploadInFlight, signIn >>

\* a fetchPosters whose catch block is its last: no finally block, and the
\* loading flag stays up after a thrown error
FetchThrowsWithoutFinally ==
    /\ fetchInFlight > 0
    /\ fetchInFlight' = fetchInFlight - 1
    /\ UNCHANGED syncVars
    /\ notice' = "none"
    /\ lastEvent' = "fetch:threw"
    /\ UNCHANGED << sessionVars, overlayVars, viewVars, lifeVars, collabVars,
                    deleteInFlight, uploadInFlight, signIn >>

\* fetch() or response.json() rejected: the catch block logs, the finally
\* block lowers the loading flag
FetchThrows ==
    /\ fetchInFlight > 0
    /\ fetchInFlight' = fetchInFlight - 1
    /\ posters' = posters
    /\ isLoading' = (IF Mounted THEN FALSE ELSE isLoading)
    /\ notice' = "none"
    /\ lastEvent' = "fetch:threw"
    /\ UNCHANGED << sessionVars, overlayVars, viewVars, lifeVars, collabVars,
                    deleteInFlight, uploadInFlight, signIn >>

(***************************************************************************)
(* Mutation Gateway.                                                       *)
(***************************************************************************)
\* a handleDelete without the admin check
handleDeleteUnguarded(posterId) ==
    /\ Cardinality(deleteInFlight) < MaxDeletes
    /\ posterId \notin deleteInFlight
    /\ deleteInFlight' = deleteInFlight \cup {posterId}
    /\ notice' = "none"

\* handleDelete(posterId), up to its first await
handleDelete(posterId) ==
    IF ~isAdmin
    THEN /\ notice' = "Only admins can delete posters"
         /\ UNCHANGED deleteInFlight
    ELSE /\ Cardinality(deleteInFlight) < MaxDeletes
         /\ posterId \notin deleteInFlight
         /\ deleteInFlight' = deleteInFlight \cup {posterId}
         /\ notice' = "none"

\* the operation, called for any poster id
HandleDelete(posterId) ==
    /\ Mounted
    /\ handleDelete(posterId)
    /\ lastEvent' = "handleDelete"
    /\ UNCHANGED << syncVars, sessionVars, overlayVars, viewVars, lifeVars,
                    collabVars, fetchInFlight, uploadInFlight, signIn >>

\* the delete gesture on a card of the grid: onDelete is handleDelete for an
\* admin and an empty function otherwise
OnDelete(poster) ==
    /\ Mounted
    /\ ~isLoading
    /\ \E i \in 1..Len(filteredPosters) : filteredPosters[i] = poster
    /\ IF isAdmin
       THEN handleDelete(poster.id)
       ELSE /\ notice' = "none"
            /\ UNCHANGED deleteInFlight
    /\ lastEvent' = "onDelete"
    /\ UNCHANGED << syncVars, sessionVars, overlayVars, viewVars, lifeVars,
                    collabVars, fetchInFlight, uploadInFlight, signIn >>

\* a delete continuation that refreshes whatever the body reports
DeleteResponseAlwaysRefreshes(posterId, result) ==
    /\ posterId \in deleteInFlight
    /\ deleteInFlight' = deleteInFlight \ {posterId}
    /\ fetchPosters
    /\ notice' = (IF result.success THEN "none" ELSE "Failed to delete poster")
    /\ lastEvent' = (IF result.success THEN "delete:ok" ELSE "delete:reported")
    /\ UNCHANGED << posters, sessionVars, overlayVars, viewVars, lifeVars,
                    collabVars, uploadInFlight, signIn >>

\* an optimistic delete: success takes the poster out of the snapshot at
\* once, and then refreshes
DeleteResponseOptimistic(posterId, result) ==
    /\ posterId \in deleteInFlight
    /\ deleteInFlight' = deleteInFlight \ {posterId}
    /\ IF result.success
       THEN /\ fetchPosters
            /\ posters' = (IF Mounted
                           THEN SelectSeq(posters, LAMBDA poster : poster.id # posterId)
                           ELSE posters)
            /\ notice' = "none"
       ELSE /\ notice' = "Failed to delete poster"
            /\ UNCHANGED << posters, isLoading, fetchInFlight >>
    /\ lastEvent' = (IF result.success THEN "delete:ok" ELSE "delete:reported")
    /\ UNCHANGED << sessionVars, overlayVars, viewVars, lifeVars,
                    collabVars, uploadInFlight, signIn >>

\* the delete response's body has been parsed: success starts a refresh,
\* a reported failure raises a notice
DeleteResponse(posterId, result) ==
    /\ posterId \in deleteInFlight
    /\ deleteInFlight' = deleteInFlight \ {posterId}
    /\ IF result.success
       THEN /\ fetchPosters
            /\ notice' = "none"
       ELSE /\ notice' = "Failed to delete poster"
            /\ UNCHANGED << isLoading, fetchInFlight >>
    /\ lastEvent' = (IF result.success THEN "delete:ok" ELSE "delete:reported")
    /\ UNCHANGED << posters, sessionVars, overlayVars, viewVars, lifeVars,
                    collabVars, uploadInFlight, signIn >>

\* a catch block of handleDelete that only logs, as fetchPosters' does
DeleteThrowsSilently(posterId) ==
    /\ posterId \in deleteInFlight
    /\ deleteInFlight' = deleteInFlight \ {posterId}
    /\ notice' = "none"
    /\ lastEvent' = "delete:threw"
    /\ UNCHANGED << syncVars, sessionVars, overlayVars, viewVars, lifeVars,
                    collabVars, fetchInFlight, uploadInFlight, signIn >>

\* the delete request or the parsing of its response rejected
DeleteThrows(posterId) ==
    /\ posterId \in deleteInFlight
    /\ deleteInFlight' = deleteInFlight \ {posterId}
    /\ notice' = "Failed to delete poster"
    /\ lastEvent' = "delete:threw"
    /\ UNCHANGED << syncVars, sessionVars, overlayVars, viewVars, lifeVars,
                    collabVars, fetchInFlight, uploadInFlight, signIn >>

\* the upload dialog, while open, submits an upload
UploadSubmit ==
    /\ Mounted
    /\ isUploadDialogOpen
    /\ ~uploadInFlight
    /\ uploadInFlight' = TRUE
    /\ notice' = "none"
    /\ lastEvent' = "upload:sent"
    /\ UNCHANGED << syncVars, sessionVars, overlayVars, viewVars, lifeVars,
                    collabVars, fetchInFlight, deleteInFlight, signIn >>

\* the upload dialog signals success: onUploadSuccess is fetchPosters
OnUploadSuccess ==
    /\ uploadInFlight
    /\ uploadInFlight' = FALSE
    /\ fetchPosters
    /\ notice' = "none"
    /\ lastEvent' = "upload:ok"
    /\ UNCHANGED << posters, sessionVars, overlayVars, viewVars, lifeVars,
                    collabVars, deleteInFlight, signIn >>

\* the upload failed: the dialog signals nothing to App
UploadFails ==
    /\ uploadInFlight
    /\ uploadInFlight' = FALSE
    /\ notice' = "none"
    /\ lastEvent' = "upload:failed"
    /\ UNCHANGED << syncVars, sessionVars, overlayVars, viewVars, lifeVars,
                    collabVars, fetchInFlight, deleteInFlight, signIn >>

(***************************************************************************)
(* View State Controller.                                                  *)
(***************************************************************************)
\* a tab of the category filter is chosen: setSelectedCategory
SelectCategory(category) ==
    /\ Mounted
    /\ selectedCategory' = category
    /\ notice' = "none"
    /\ lastEvent' = "category"
    /\ UNCHANGED << syncVars, sessionVars, overlayVars, selectedPoster, lifeVars,
                    collabVars, netVars >>

\* a click handler that opens the overlay and forgets the selection
handlePosterClickOpensOnly(poster) ==
    /\ Mounted
    /\ ~isLoading
    /\ \E i \in 1..Len(filteredPosters) : filteredPosters[i] = poster
    /\ isModalOpen' = TRUE
    /\ notice' = "none"
    /\ lastEvent' = "poster:click"
    /\ UNCHANGED << syncVars, sessionVars, isUploadDialogOpen, isAuthModalOpen,
                    viewVars, lifeVars, collabVars, netVars >>

\* handlePosterClick(poster), for a card of the grid
handlePosterClick(poster) ==
    /\ Mounted
    /\ ~isLoading
    /\ \E i \in 1..Len(filteredPosters) : filteredPosters[i] = poster
    /\ selectedPoster' = poster
    /\ isModalOpen' = TRUE
    /\ notice' = "none"
    /\ lastEvent' = "poster:click"
    /\ UNCHANGED << syncVars, sessionVars, isUploadDialogOpen, isAuthModalOpen,
                    selectedCategory, lifeVars, collabVars, netVars >>

\* an onClose that dismisses every overlay
CloseModalClosesAll ==
    /\ Mounted
    /\ isModalOpen' = FALSE
    /\ isUploadDialogOpen' = FALSE
    /\ isAuthModalOpen' = FALSE
    /\ notice' = "none"
    /\ lastEvent' = "close:detail"
    /\ UNCHANGED << syncVars, sessionVars, viewVars, lifeVars, collabVars, netVars >>

\* PosterModal's onClose
CloseModal ==
    /\ Mounted
    /\ isModalOpen' = FALSE
    /\ notice' = "none"
    /\ lastEvent' = "close:detail"
    /\ UNCHANGED << syncVars, sessionVars, isUploadDialogOpen, isAuthModalOpen,
                    viewVars, lifeVars, collabVars, netVars >>

\* UploadDialog's onClose
CloseUploadDialog ==
    /\ Mounted
    /\ isUploadDialogOpen' = FALSE
    /\ notice' = "none"
    /\ lastEvent' = "close:upload"
    /\ UNCHANGED << syncVars, sessionVars, isModalOpen, isAuthModalOpen,
                    viewVars, lifeVars, collabVars, netVars >>

\* AuthModal's onClose
CloseAuthModal ==
    /\ Mounted
    /\ isAuthModalOpen' = FALSE
    /\ notice' = "none"
    /\ lastEvent' = "close:auth"
    /\ UNCHANGED << syncVars, sessionVars, isModalOpen, isUploadDialogOpen,
                    viewVars, lifeVars, collabVars, netVars >>

\* a handleAddPoster that sends a non-admin to the auth overlay and opens
\* the upload overlay all the same (the early return left out)
handleAddPosterFallsThrough ==
    /\ Mounted
    /\ IF ~isAdmin
       THEN /\ notice' =
                 "Only admins can upload posters. Please sign in with an admin account."
            /\ isAuthModalOpen' = TRUE
       ELSE /\ notice' = "none"
            /\ UNCHANGED isAuthModalOpen
    /\ isUploadDialogOpen' = TRUE
    /\ lastEvent' = "handleAddPoster"
    /\ UNCHANGED << syncVars, sessionVars, isModalOpen, viewVars, lifeVars,
                    collabVars, netVars >>

\* handleAddPoster, called in any state of the mounted component
handleAddPoster ==
    /\ Mounted
    /\ IF ~isAdmin
       THEN /\ notice' =
                 "Only admins can upload posters. Please sign in with an admin account."
            /\ isAuthModalOpen' = TRUE
            /\ UNCHANGED isUploadDialogOpen
       ELSE /\ isUploadDialogOpen' = TRUE
            /\ notice' = "none"
            /\ UNCHANGED isAuthModalOpen
    /\ lastEvent' = "handleAddPoster"
    /\ UNCHANGED << syncVars, sessionVars, isModalOpen, viewVars, lifeVars,
                    collabVars, netVars >>

\* the Admin Login button, shown while no email is projected
OpenAuthModal ==
    /\ Mounted
    /\ userEmail = NoEmail
    /\ isAuthModalOpen' = TRUE
    /\ notice' = "none"
    /\ lastEvent' = "login:open"
    /\ UNCHANGED << syncVars, sessionVars, isModalOpen, isUploadDialogOpen,
                    viewVars, lifeVars, collabVars, netVars >>

\* the auth modal, while open, submits credentials
AuthSubmit ==
    /\ Mounted
    /\ isAuthModalOpen
    /\ signIn = "idle"
    /\ signIn' = "sent"
    /\ notice' = "none"
    /\ lastEvent' = "signIn:sent"
    /\ UNCHANGED << syncVars, sessionVars, overlayVars, viewVars, lifeVars,
                    collabVars, fetchInFlight, deleteInFlight, uploadInFlight >>

\* the collaborator accepts the credentials: its session becomes the
\* account's, and a subscriber is notified
SignInAccepted(email) ==
    /\ signIn = "sent"
    /\ subscribed => Len(authEvents) < MaxAuthEvents
    /\ signIn' = "accepted"
    /\ authSession' = email
    /\ authEvents' = IF subscribed THEN Append(authEvents, email) ELSE authEvents
    /\ notice' = "none"
    /\ lastEvent' = "signIn:accepted"
    /\ UNCHANGED << syncVars, sessionVars, overlayVars, viewVars, lifeVars,
                    sessionQuery, subscribed, fetchInFlight, deleteInFlight,
                    uploadInFlight >>

\* an onAuthSuccess that is fetchPosters alone, as onUploadSuccess is
OnAuthSuccessRefreshesOnly ==
    /\ signIn = "accepted"
    /\ signIn' = "idle"
    /\ fetchPosters
    /\ notice' = "none"
    /\ lastEvent' = "signIn:ok"
    /\ UNCHANGED << posters, sessionVars, overlayVars, viewVars, lifeVars,
                    collabVars, deleteInFlight, uploadInFlight >>

\* the auth modal signals success: onAuthSuccess closes the overlay and
\* refreshes
OnAuthSuccess ==
    /\ signIn = "accepted"
    /\ signIn' = "idle"
    /\ isAuthModalOpen' = (IF Mounted THEN FALSE ELSE isAuthModalOpen)
    /\ fetchPosters
    /\ notice' = "none"
    /\ lastEvent' = "signIn:ok"
    /\ UNCHANGED << posters, sessionVars, isModalOpen, isUploadDialogOpen,
                    viewVars, lifeVars, collabVars, deleteInFlight, uploadInFlight >>

\* the sign-in failed: the modal signals nothing to App
AuthFails ==
    /\ signIn = "sent"
    /\ signIn' = "idle"
    /\ notice' = "none"
    /\ lastEvent' = "signIn:failed"
    /\ UNCHANGED << syncVars, sessionVars, overlayVars, viewVars, lifeVars,
                    collabVars, fetchInFlight, deleteInFlight, uploadInFlight >>

(***************************************************************************)
(* The next-state relation.                                                *)
(***************************************************************************)
PosterIds == { poster.id : poster \in PosterPool }

Next ==
    \/ Mount
    \/ GetSessionResolves
    \/ SessionThen
    \/ \E sessionEmail \in SessionEmails : AuthStateChange(sessionEmail)
    \/ OnAuthStateChange
    \/ \E succeeds \in BOOLEAN : handleSignOut(succeeds)
    \/ Unmount
    \/ \E result \in ReadResponses : FetchResponse(result)
    \/ FetchThrows
    \/ \E posterId \in PosterIds : HandleDelete(posterId)
    \/ \E poster \in PosterPool : OnDelete(poster)
    \/ \E posterId \in PosterIds, result \in DeleteResponses :
          DeleteResponse(posterId, result)
    \/ \E posterId \in PosterIds : DeleteThrows(posterId)
    \/ UploadSubmit
    \/ OnUploadSuccess
    \/ UploadFails
    \/ \E category \in Tabs : SelectCategory(category)
    \/ \E poster \in PosterPool : handlePosterClick(poster)
    \/ CloseModal
    \/ CloseUploadDialog
    \/ CloseAuthModal
    \/ handleAddPoster
    \/ OpenAuthModal
    \/ AuthSubmit
    \/ \E email \in Accounts : SignInAccepted(email)
    \/ OnAuthSuccess
    \/ AuthFails

\* every event of the component together; the product of the components is
\* beyond exhaustive search at these bounds, so the properties are checked
\* under the specifications below
Spec == Init /\ [][Next]_vars

(***************************************************************************)
(* The components on their own.  Each specification below runs the events  *)
(* of one part of the component from the same Init; the events it leaves   *)
(* out do not write the variables its claims are about.                    *)
(***************************************************************************)
\* the session projection, with the operations the role gates
NextSession ==
    \/ Mount
    \/ GetSessionResolves
    \/ SessionThen
    \/ \E sessionEmail \in SessionEmails : AuthStateChange(sessionEmail)
    \/ OnAuthStateChange
    \/ \E succeeds \in BOOLEAN : handleSignOut(succeeds)
    \/ Unmount
    \/ handleAddPoster
    \/ OpenAuthModal
    \/ CloseUploadDialog
    \/ CloseAuthModal

SpecSession == Init /\ [][NextSession]_vars

\* the collection, the requests that refresh it and the mutations
NextSync ==
    \/ Mount
    \/ GetSessionResolves
    \/ SessionThen
    \/ OnAuthStateChange
    \/ \E succeeds \in BOOLEAN : handleSignOut(succeeds)
    \/ Unmount
    \/ \E result \in ReadResponses : FetchResponse(result)
    \/ FetchThrows
    \/ \E posterId \in PosterIds : HandleDelete(posterId)
    \/ \E poster \in PosterPool : OnDelete(poster)
    \/ \E posterId \in PosterIds, result \in DeleteResponses :
          DeleteResponse(posterId, result)
    \/ \E posterId \in PosterIds : DeleteThrows(posterId)
    \/ handleAddPoster
    \/ UploadSubmit
    \/ OnUploadSuccess
    \/ UploadFails
    \/ CloseUploadDialog
    \/ CloseAuthModal

SpecSync == Init /\ [][NextSync]_vars

\* a read request in flight comes to an end: its response body is parsed, or
\* the request or the parsing rejects
FetchCompletes ==
    \/ \E result \in ReadResponses : FetchResponse(result)
    \/ FetchThrows

\* the refreshes on their own: the startup fetch and the refresh after each
\* successful delete, with the session that admits the delete and teardown
NextRefresh ==
    \/ Mount
    \/ GetSessionResolves
    \/ SessionThen
    \/ Unmount
    \/ \E result \in ReadResponses : FetchResponse(result)
    \/ FetchThrows
    \/ \E posterId \in PosterIds : HandleDelete(posterId)
    \/ \E posterId \in PosterIds, result \in DeleteResponses :
          DeleteResponse(posterId, result)
    \/ \E posterId \in PosterIds : DeleteThrows(posterId)

SpecRefresh == Init /\ [][NextRefresh]_vars

\* the refreshes whose read requests do not hang: a request in flight
\* eventually completes, and its continuation is eventually run by the
\* event loop
SpecRefreshFair == SpecRefresh /\ WF_vars(FetchCompletes)

\* the view state over the collection
NextView ==
    \/ Mount
    \/ GetSessionResolves
    \/ SessionThen
    \/ Unmount
    \/ \E result \in ReadResponses : FetchResponse(result)
    \/ FetchThrows
    \/ \E category \in Tabs : SelectCategory(category)
    \/ \E poster \in PosterPool : handlePosterClick(poster)
    \/ CloseModal
    \/ CloseUploadDialog
    \/ CloseAuthModal
    \/ handleAddPoster
    \/ OpenAuthModal

SpecView == Init /\ [][NextView]_vars

\* the sign-in through the auth overlay, over the collection and the
\* overlays
NextAuth ==
    \/ Mount
    \/ \E result \in ReadResponses : FetchResponse(result)
    \/ FetchThrows
    \/ \E poster \in PosterPool : handlePosterClick(poster)
    \/ CloseModal
    \/ CloseUploadDialog
    \/ CloseAuthModal
    \/ handleAddPoster
    \/ OpenAuthModal
    \/ AuthSubmit
    \/ \E email \in Accounts : SignInAccepted(email)
    \/ OnAuthStateChange
    \/ OnAuthSuccess
    \/ AuthFails

SpecAuth == Init /\ [][NextAuth]_vars

(***************************************************************************)
(* Properties.                                                             *)
(***************************************************************************)

\* C1: in every state a render can see, isAdmin is true exactly when an
\* email is projected and that email is on the admin allowlist; a session
\* value never leaves the new email beside the role of the previous one.
C1_RoleFollowsEmail ==
    isAdmin = (userEmail # NoEmail /\ userEmail \in ADMIN_EMAILS)

\* a notification has carried an allowlisted account: email and role have
\* both changed
C1_AdminNotified ==
    /\ lastEvent = "auth:notified"
    /\ userEmail \in ADMIN_EMAILS
    /\ isAdmin

\* C2: a delete requested while isAdmin is false (through handleDelete or
\* through a card's onDelete) sends no delete request, starts no refresh
\* and leaves the snapshot and everything else as it was; at most the
\* authorization notice is raised.
C2_DeniedDeleteIsInert ==
    [][ (~isAdmin /\ lastEvent' \in {"handleDelete", "onDelete"})
          => /\ UNCHANGED appVars
             /\ notice' \in {"none", "Only admins can delete posters"} ]_vars

\* handleDelete has refused a non-admin, with posters in the snapshot
C2_DeleteRefused ==
    /\ lastEvent = "handleDelete"
    /\ ~isAdmin
    /\ notice = "Only admins can delete posters"
    /\ posters # << >>
    /\ deleteInFlight = {}

\* C3: a successful delete or upload response starts exactly one refresh
\* (one read request more in flight); a failed one (reported or thrown)
\* starts none.
C3_RefreshOnSuccessOnly ==
    [][ /\ lastEvent' \in {"delete:ok", "upload:ok"}
           => /\ fetchInFlight' = fetchInFlight + 1
              /\ Mounted => isLoading'
        /\ lastEvent' \in {"delete:reported", "delete:threw", "upload:failed"}
           => UNCHANGED << fetchInFlight, isLoading >> ]_vars

\* a delete has succeeded while no read was in flight, and one is now
C3_DeleteRefreshed ==
    /\ lastEvent = "delete:ok"
    /\ fetchInFlight = 1
    /\ isLoading

\* C4 (as claimed): while the component is mounted, isLoading is true
\* exactly while a refresh is in progress, overlapping refreshes included.
C4_LoadingIffRefreshing ==
    Mounted => (isLoading <=> fetchInFlight > 0)

\* C5: a refresh that ends in a reported failure or a thrown error leaves
\* the snapshot as it was and raises no notice.
C5_FailedRefreshKeepsSnapshot ==
    [][ lastEvent' \in {"fetch:reported", "fetch:threw"}
          => /\ posters' = posters
             /\ notice' = "none" ]_vars

\* a reported failure has been processed over a snapshot of two posters
C5_FailureOverSnapshot ==
    /\ lastEvent = "fetch:reported"
    /\ Mounted
    /\ Len(posters) = 2
    /\ ~isLoading

\* the posters of `snapshot` in `category`, in snapshot order, said without
\* the filter: `filtered` has one entry per matching index, and its k-th
\* entry is the matching poster with k-1 matching posters before it
IsRestriction(filtered, snapshot, category) ==
    LET matching == { i \in 1..Len(snapshot) : snapshot[i].category = category }
    IN  /\ Len(filtered) = Cardinality(matching)
        /\ \A k \in 1..Len(filtered) :
              \E i \in matching :
                 /\ filtered[k] = snapshot[i]
                 /\ Cardinality({ j \in matching : j < i }) = k - 1

\* C6: in every state a render has produced, filteredPosters is the whole
\* snapshot under "all", and under any other category exactly the posters
\* of the current snapshot in that category, in snapshot order.
C6_FilterMatchesSnapshot ==
    ~renderFault =>
        IF selectedCategory = "all"
        THEN filteredPosters = posters
        ELSE IsRestriction(filteredPosters, posters, selectedCategory)

\* the snapshot was replaced while a category was selected, and the filter
\* keeps one of its two posters
C6_FilteredAfterReplacement ==
    /\ lastEvent = "fetch:ok"
    /\ selectedCategory = "Typography"
    /\ Len(posters) = 2
    /\ Len(filteredPosters) = 1

\* C7: a call of handleAddPoster has one of two outcomes: for a non-admin
\* the notice is raised, the auth overlay is open and the upload overlay's
\* flag is unchanged; for an admin the upload overlay is open, no notice is
\* raised and the auth overlay's flag is unchanged.
C7_AddPosterOutcomes ==
    [][ lastEvent' = "handleAddPoster"
          => IF ~isAdmin
             THEN /\ notice' # "none"
                  /\ isAuthModalOpen'
                  /\ isUploadDialogOpen' = isUploadDialogOpen
             ELSE /\ notice' = "none"
                  /\ isUploadDialogOpen'
                  /\ isAuthModalOpen' = isAuthModalOpen ]_vars

\* handleAddPoster has refused a signed-in account that is not an admin
C7_AddPosterRefused ==
    /\ lastEvent = "handleAddPoster"
    /\ userEmail = "visitor@example.com"
    /\ ~isAdmin
    /\ isAuthModalOpen
    /\ ~isUploadDialogOpen
    /\ notice # "none"

\* C8 (as claimed): the detail overlay is open exactly when a poster is
\* selected.
C8_OpenIffSelected ==
    isModalOpen <=> selectedPoster # NoPoster

\* C8 (amended): whenever the detail overlay is open a poster is selected.
C8_OpenImpliesSelected ==
    isModalOpen => selectedPoster # NoPoster

\* a card has been clicked: the overlay is open on that poster
C8_PosterViewed ==
    /\ lastEvent = "poster:click"
    /\ isModalOpen
    /\ selectedPoster \in PosterPool

\* C9 (as claimed): when the upload dialog signals success, the upload
\* overlay's flag becomes false and one refresh starts.
C9_UploadSuccessClosesAndRefreshes ==
    [][ lastEvent' = "upload:ok"
          => /\ Mounted => ~isUploadDialogOpen'
             /\ fetchInFlight' = fetchInFlight + 1 ]_vars

\* C10: when the auth modal signals success, the auth overlay's flag becomes
\* false and one refresh starts, whatever the other overlays show and
\* whether or not a read is already in flight.
C10_AuthSuccessClosesAndRefreshes ==
    [][ lastEvent' = "signIn:ok"
          => /\ Mounted => (~isAuthModalOpen' /\ isLoading')
             /\ fetchInFlight' = fetchInFlight + 1
             /\ UNCHANGED << isModalOpen, isUploadDialogOpen >> ]_vars

\* success was signalled with the detail overlay open and a read already in
\* flight
C10_AuthSucceededDuringRefresh ==
    /\ lastEvent = "signIn:ok"
    /\ Mounted
    /\ ~isAuthModalOpen
    /\ isModalOpen
    /\ fetchInFlight = 2

\* C11: errors are routed by kind.  A failed delete (reported by the body or
\* thrown) raises the one notice "Failed to delete poster" and leaves the
\* snapshot and isLoading as they were; a failed read raises no notice; a
\* delete or an upload refused for want of the role raises its notice and
\* sends no request.  In each case the handler returns: the component stays
\* as alive as it was, with no render fault.
C11_ErrorsRoutedByKind ==
    [][ /\ lastEvent' \in {"delete:reported", "delete:threw"}
           => /\ notice' = "Failed to delete poster"
              /\ UNCHANGED << posters, isLoading >>
              /\ UNCHANGED lifeVars
        /\ lastEvent' \in {"fetch:reported", "fetch:threw"}
           => /\ notice' = "none"
              /\ UNCHANGED lifeVars
        /\ (~isAdmin /\ lastEvent' \in {"handleDelete", "handleAddPoster"})
           => /\ notice' \in
                   { "Only admins can delete posters",
                     "Only admins can upload posters. Please sign in with an admin account." }
              /\ UNCHANGED netVars
              /\ UNCHANGED lifeVars ]_vars

\* a delete request has thrown while the snapshot held posters and no read
\* was in flight: the notice is up, the grid is still shown
C11_DeleteThrew ==
    /\ lastEvent = "delete:threw"
    /\ notice = "Failed to delete poster"
    /\ Mounted
    /\ Len(posters) = 2
    /\ ~isLoading
    /\ fetchInFlight = 0

\* the events that end a read request
FetchCompletions == {"fetch:ok", "fetch:reported", "fetch:threw"}

\* C12: every step that ends a read request (a successful body, a reported
\* failure or a thrown error) lowers isLoading of the mounted component, and
\* while a read request that completes is in flight such a step eventually
\* happens.
C12_CompletionLowersLoading ==
    /\ [][ (lastEvent' \in FetchCompletions /\ Mounted) => ~isLoading' ]_vars
    /\ (fetchInFlight > 0)
          ~> (lastEvent \in FetchCompletions /\ (Mounted => ~isLoading))

\* a read has thrown and was the last one in flight: the loading flag is down
C12_LoweredAfterThrow ==
    /\ lastEvent = "fetch:threw"
    /\ Mounted
    /\ fetchInFlight = 0
    /\ ~isLoading

\* C13: with reads overlapping, the mounted component's snapshot after each
\* successful response is the sequence that response carries, whatever was
\* issued or processed before it and whatever is still in flight, so the
\* response that arrives last decides the snapshot.  A read request leaves
\* only by its own completion, one at a time: none is cancelled, and no
\* response is dropped as stale.
C13_LastArrivalWins ==
    [][ /\ (lastEvent' = "fetch:ok" /\ Mounted)
              => \A result \in ReadResponses :
                    ( /\ result.success
                      /\ "posters" \in DOMAIN result
                      /\ FetchResponse(result) )
                    => posters' = result.posters
        /\ fetchInFlight' < fetchInFlight
              => /\ fetchInFlight' = fetchInFlight - 1
                 /\ lastEvent' \in FetchCompletions ]_vars

\* of two overlapping reads, one response has been processed and has
\* replaced the snapshot while the other request is still in flight
C13_FirstOfTwoProcessed ==
    /\ lastEvent = "fetch:ok"
    /\ Mounted
    /\ fetchInFlight = 1
    /\ Len(posters) = 2
    /\ ~isLoading

\* the steps of a delete: the request through the handler or a card, and
\* the three ways it ends
DeleteSteps ==
    {"handleDelete", "onDelete", "delete:ok", "delete:reported", "delete:threw"}

\* C14: the snapshot changes only in the step that processes a successful
\* read response; no step of a delete changes it, so a poster whose delete
\* has succeeded stays in the snapshot until a read response replaces it.
C14_SnapshotWrittenByRefreshOnly ==
    [][ /\ posters' # posters => lastEvent' = "fetch:ok"
        /\ lastEvent' \in DeleteSteps => posters' = posters ]_vars

\* a delete has succeeded and its refresh is in flight: the snapshot still
\* holds its two posters
C14_DeletedStillShown ==
    /\ lastEvent = "delete:ok"
    /\ Mounted
    /\ Len(posters) = 2
    /\ fetchInFlight = 1
    /\ deleteInFlight = {}

\* C15: a sign-out, successful or failed, leaves the projected email and
\* role as they were; the projection changes only in the then-callback of
\* the initial query and in the subscription callback.
C15_SignOutLeavesProjection ==
    [][ /\ lastEvent' \in {"signOut:ok", "signOut:failed"}
           => UNCHANGED sessionVars
        /\ (userEmail' # userEmail \/ isAdmin' # isAdmin)
           => lastEvent' \in {"getSession:then", "auth:notified"} ]_vars

\* an admin has signed out and the notification has not been delivered yet:
\* the collaborator holds no session, the projection is still the admin's
C15_SignedOutNotNotified ==
    /\ lastEvent = "signOut:ok"
    /\ authSession = NoEmail
    /\ authEvents = << NoEmail >>
    /\ userEmail \in ADMIN_EMAILS
    /\ isAdmin

\* C16: each of the three close transitions lowers its own flag and leaves
\* the other two flags, the category filter and the snapshot as they were;
\* on an overlay that is closed already it changes nothing of the component
\* at all, so closing twice is closing once.
C16_CloseIsIndependentAndIdempotent ==
    [][ /\ lastEvent' = "close:detail"
           => /\ ~isModalOpen'
              /\ UNCHANGED << isUploadDialogOpen, isAuthModalOpen,
                              selectedCategory, posters >>
              /\ ~isModalOpen => UNCHANGED appVars
        /\ lastEvent' = "close:upload"
           => /\ ~isUploadDialogOpen'
              /\ UNCHANGED << isModalOpen, isAuthModalOpen,
                              selectedCategory, posters >>
              /\ ~isUploadDialogOpen => UNCHANGED appVars
        /\ lastEvent' = "close:auth"
           => /\ ~isAuthModalOpen'
              /\ UNCHANGED << isModalOpen, isUploadDialogOpen,
                              selectedCategory, posters >>
              /\ ~isAuthModalOpen => UNCHANGED appVars ]_vars

\* the detail overlay has been closed over the other two, both open, with a
\* category selected and posters in the snapshot
C16_DetailClosedOverOthers ==
    /\ lastEvent = "close:detail"
    /\ ~isModalOpen
    /\ isUploadDialogOpen
    /\ isAuthModalOpen
    /\ selectedCategory = "Typography"
    /\ Len(posters) = 2

\* C17: teardown revokes the subscription: once the component is torn down
\* it is not subscribed, the subscription callback is not run again, and no
\* step changes the projected email or role.
C17_RevokedAtTeardown ==
    [][ /\ phase' = "unmounted" => ~subscribed'
        /\ phase = "unmounted"
           => /\ lastEvent' # "auth:notified"
              /\ UNCHANGED sessionVars ]_vars

\* after teardown the collaborator's session has ended; the projection is
\* still the admin's, and the notification queued before teardown stays
\* undelivered
C17_ChangedAfterTeardown ==
    /\ phase = "unmounted"
    /\ lastEvent = "auth:change"
    /\ authSession = NoEmail
    /\ authEvents # << >>
    /\ userEmail \in ADMIN_EMAILS
    /\ isAdmin

\* C18 (as claimed): once the initial query's result and every queued
\* notification have been delivered to the mounted component, the projected
\* email is the email of the collaborator's current session, in whatever
\* order they were delivered.
C18_SettledProjectionIsCurrent ==
    (Mounted /\ sessionQuery.st = "done" /\ authEvents = << >>)
        => userEmail = EmailOf(authSession)

\* C19 (as claimed): whenever the upload overlay is open, isAdmin is true,
\* also after a notification that ends the session has been delivered while
\* it was open.
C19_UploadOpenImpliesAdmin ==
    isUploadDialogOpen => isAdmin

\* C20 (as claimed): in every state the snapshot is a sequence of posters,
\* never undefined, whatever bodies the read endpoint has returned, and
\* filteredPosters is defined.
C20_SnapshotIsSequence ==
    /\ posters # Undefined
    /\ filteredPosters # TypeError
    /\ ~renderFault

====
